---- MODULE Spec2Model ----
(***************************************************************************)
(* Model of GithubInstallController                                        *)
(* (packages/backend/src/controllers/githubController.ts).                 *)
(*                                                                         *)
(* Strings are sequences of symbols.  A string the controller only         *)
(* compares as a whole (a token, a user uuid, a code) is one symbol long;  *)
(* the nanoid, the state token and the installation id are spelled out     *)
(* symbol by symbol because the controller edits or formats them.          *)
(* The value undefined is a sequence no string is equal to.                *)
(*                                                                         *)
(* req.session is the per-session object the handlers read and assign; a   *)
(* handler runs atomically from one await to the next (one JavaScript      *)
(* turn), so a callback is a process with one step per turn.               *)
(***************************************************************************)
EXTENDS Integers, Sequences, FiniteSets, TLC

(* ---------------- bounds ---------------- *)
NanoLen == 2
MaxInitiations == 2

(* ---------------- values ---------------- *)
undefined == <<"undefined">>
emptyString == <<>>

Falsy(x) == x = undefined \/ x = emptyString

Users == {<<"u1">>, <<"u2">>}
Sessions == {"s1", "s2"}
\* the invocations of githubOauthCallback that may be in progress together
Callbacks == 1..2

\* lightdashConfig.siteUrl and lightdashConfig.github.redirectDomain
siteUrl == <<"https://", "lightdash.example">>
subdomain == <<"e", "u">>
separator == "_"

\* a part of nanoid's urlAlphabet that contains the separator
urlAlphabet == {"a", separator}
NanoIds == [1..NanoLen -> urlAlphabet]

\* String.prototype.replace(pattern, replacement) with a string pattern of
\* one symbol: only the first occurrence is replaced
Replace(s, pattern, replacement) ==
    IF \E i \in 1..Len(s) : s[i] = pattern
    THEN LET i == CHOOSE k \in 1..Len(s) :
                     s[k] = pattern /\ \A j \in 1..(k - 1) : s[j] # pattern
         IN  SubSeq(s, 1, i - 1) \o replacement \o SubSeq(s, i + 1, Len(s))
    ELSE s

\* const randomID = nanoid().replace('_', '')
randomIDOf(nano) == Replace(nano, separator, emptyString)

\* const state = `${subdomain}_${randomID}`
stateOf(nano) == subdomain \o <<separator>> \o randomIDOf(nano)

\* new URL('/generalSettings/integrations', lightdashConfig.siteUrl).href
returnToUrl == siteUrl \o <<"/generalSettings/integrations">>

\* new URL(input) with no base: parses an absolute URL and throws TypeError
\* on anything else, '/' included
IsAbsoluteUrl(input) == Len(input) >= 1 /\ input[1] = "https://"

\* the decimal digits of a number, as template-literal interpolation gives
Digit(d) == <<"0", "1", "2", "3", "4", "5", "6", "7", "8", "9">>[d + 1]

RECURSIVE NumberToString(_)
NumberToString(n) ==
    IF n < 10 THEN <<Digit(n)>>
    ELSE NumberToString(n \div 10) \o <<Digit(n % 10)>>

\* session.oauth; {} and an absent oauth read alike through ?. and ||
EmptyOauth == [state |-> undefined, returnTo |-> undefined, inviteCode |-> undefined]

\* lightdashConfig.github.appName
githubAppName == <<"lightdash-app">>

(* ---------------- the provider (GitHub), a remote service ---------------- *)
\* what oauth.createToken may resolve with: { token, refreshToken }
Authentications ==
    {[token |-> <<"T1">>, refreshToken |-> <<"R1">>],
     [token |-> <<"T2">>, refreshToken |-> <<"R2">>],
     [token |-> <<"T3">>, refreshToken |-> undefined]}
\* what listInstallationsForAuthenticatedUser may resolve with: the ids of
\* data.installations
InstallationLists == {{7}, {7, 12}}

(* ---------------- what a client may send ---------------- *)
Codes == {undefined, <<"codeX">>}
InstallationIds == {undefined, <<"1", "2">>}
SetupActions == {undefined, <<"review">>}

VARIABLES
    session,        \* req.session.oauth of every browser session
    sessionUser,    \* req.user.userUuid of the user logged in on a session
    store,          \* the credential records GithubAppService keeps
    issued,         \* the state tokens handed out to a session so far
    install,        \* the last response of /install on a session
    callback,       \* the invocations of /oauth/callback
    uninstall       \* the invocation of /uninstall

vars == <<session, sessionUser, store, issued, install, callback, uninstall>>

NoResponse == [status |-> 0, location |-> undefined]

\* an invocation slot nobody uses
Idle ==
    [pc |-> "idle", session |-> "none",
     code |-> undefined, state |-> undefined,
     installation_id |-> undefined, setup_action |-> undefined,
     validated |-> FALSE,
     userUuid |-> undefined, token |-> undefined, refreshToken |-> undefined,
     installations |-> {},
     status |-> 0, error |-> "none", location |-> undefined,
     createTokenCalls |-> 0, listInstallationsCalls |-> 0, upsertCalls |-> 0]

\* no /uninstall request is being served
UninstallIdle ==
    [pc |-> "idle", userUuid |-> undefined, status |-> 0,
     body |-> [status |-> "none", results |-> undefined]]

Init ==
    /\ session = [s \in Sessions |-> EmptyOauth]
    /\ sessionUser \in {f \in [Sessions -> Users] : f["s1"] = <<"u1">>}
    /\ store = {}
    /\ issued = [s \in Sessions |-> {}]
    /\ install = [s \in Sessions |-> NoResponse]
    /\ callback = [p \in Callbacks |-> Idle]
    /\ uninstall = UninstallIdle

AllIssued == UNION {issued[s] : s \in Sessions}

\* a handler that returned or threw sends its response in the same turn,
\* before any other request's turn runs
NoneDone ==
    /\ \A q \in Callbacks : callback[q].pc # "done"
    /\ uninstall.pc # "done"

(* ---------------- GET /install ---------------- *)
\* as BeginOauth, without line 63: the initiating user is not stored
BeginOauthWithoutUser(state, userUuid) ==
    [state |-> state, returnTo |-> returnToUrl, inviteCode |-> undefined]

\* the session's oauth after lines 60-63
BeginOauth(state, userUuid) ==
    [state |-> state, returnTo |-> returnToUrl, inviteCode |-> userUuid]

\* as installGithubAppForOrganization, but a state that is pending is kept
\* (req.session.oauth.state ||= state)
installKeepingPendingState(s, nano) ==
    LET state == stateOf(nano)
        kept == IF Falsy(session[s].state) THEN state ELSE session[s].state
    IN
    /\ NoneDone
    /\ session' = [session EXCEPT ![s] = BeginOauth(kept, sessionUser[s])]
    /\ issued' = [issued EXCEPT ![s] = @ \cup {state}]
    /\ install' = [install EXCEPT ![s] =
            [status |-> 302,
             location |-> <<"https://github.com/apps/">> \o githubAppName
                          \o <<"/installations/new?state=">> \o state]]
    /\ UNCHANGED <<sessionUser, store, callback, uninstall>>

\* lines 48-70; nano is what nanoid() returns
installGithubAppForOrganization(s, nano) ==
    LET state == stateOf(nano) IN
    /\ NoneDone
    /\ session' = [session EXCEPT ![s] = BeginOauth(state, sessionUser[s])]
    /\ issued' = [issued EXCEPT ![s] = @ \cup {state}]
    /\ install' = [install EXCEPT ![s] =
            [status |-> 302,
             location |-> <<"https://github.com/apps/">> \o githubAppName
                          \o <<"/installations/new?state=">> \o state]]
    /\ UNCHANGED <<sessionUser, store, callback, uninstall>>

(* ---------------- GET /oauth/callback ---------------- *)
\* An invocation records a query value when the handler first reads it: a
\* value the handler never reads makes no difference to the invocation.
Received(s, state) == [Idle EXCEPT !.session = s, !.state = state]

\* the handler throws: this.setStatus(status) when status is given (0: the
\* status is left as it is), then the error propagates
Throw(cb, status, error) ==
    [cb EXCEPT !.pc = "done",
               !.status = IF status = 0 THEN @ ELSE status,
               !.error = error]

\* as StateMatches, with && for || in line 90
StateMatchesEither(state, oauth) == ~Falsy(state) \/ state = oauth.state

\* the negation of line 90's condition
StateMatches(state, oauth) == ~Falsy(state) /\ state = oauth.state

\* as FirstTurn, without the check of lines 106-109
FirstTurnAnyInstallationId(req, oauth, code, installation_id, setup_action) ==
    IF ~StateMatches(req.state, oauth)
    THEN Throw(req, 400, "Error: State does not match")
    ELSE
    LET reviewed == [req EXCEPT !.validated = TRUE,
                         !.setup_action = setup_action,
                         !.status = IF setup_action = <<"review">>
                                    THEN 200 ELSE @]
        userUuid == oauth.inviteCode
        complete == [reviewed EXCEPT !.userUuid = userUuid,
                                     !.installation_id = installation_id]
    IN  IF Falsy(userUuid)
        THEN Throw(reviewed, 400, "Error: User uuid not provided")
        ELSE IF ~Falsy(code)
        THEN [complete EXCEPT !.code = code,
                              !.pc = "createToken",
                              !.createTokenCalls = @ + 1]
        ELSE [complete EXCEPT !.code = code, !.pc = "done"]

\* lines 90-113, up to the first await
FirstTurn(req, oauth, code, installation_id, setup_action) ==
    IF ~StateMatches(req.state, oauth)
    THEN Throw(req, 400, "Error: State does not match")
    ELSE
    LET reviewed == [req EXCEPT !.validated = TRUE,
                         !.setup_action = setup_action,
                         !.status = IF setup_action = <<"review">>
                                    THEN 200 ELSE @]
        userUuid == oauth.inviteCode
        complete == [reviewed EXCEPT !.userUuid = userUuid,
                                     !.installation_id = installation_id]
    IN  IF Falsy(userUuid)
        THEN Throw(reviewed, 400, "Error: User uuid not provided")
        ELSE IF Falsy(installation_id)
        THEN Throw(complete, 400, "Error: Installation id not provided")
        ELSE IF ~Falsy(code)
        THEN [complete EXCEPT !.code = code,
                              !.pc = "createToken",
                              !.createTokenCalls = @ + 1]
        ELSE [complete EXCEPT !.code = code, !.pc = "done"]

\* what a client may send as state: nothing, a prefix of a token, or any
\* token handed out so far, to any session
States == {undefined, emptyString, subdomain \o <<separator>>} \cup AllIssued

\* invocation slots are taken in order: which slot serves a request makes
\* no difference
githubOauthCallback(p, s, code, state, installation_id, setup_action) ==
    /\ NoneDone
    /\ callback[p].pc = "idle"
    /\ \A q \in Callbacks : q < p => callback[q].pc # "idle"
    /\ callback' = [callback EXCEPT ![p] =
            FirstTurn(Received(s, state), session[s],
                      code, installation_id, setup_action)]
    /\ UNCHANGED <<session, sessionUser, store, issued, install, uninstall>>

\* as SecondTurn, without the check of lines 116-117
SecondTurnAnyRefreshToken(cb, token, refreshToken) ==
    [cb EXCEPT !.token = token, !.refreshToken = refreshToken,
               !.pc = "listInstallations",
               !.listInstallationsCalls = @ + 1]

\* lines 115-127: createToken resolved
SecondTurn(cb, token, refreshToken) ==
    LET exchanged == [cb EXCEPT !.token = token, !.refreshToken = refreshToken]
    IN  IF refreshToken = undefined
        THEN Throw(exchanged, 0, "ForbiddenError: Invalid authentication token")
        ELSE [exchanged EXCEPT !.pc = "listInstallations",
                               !.listInstallationsCalls = @ + 1]

createTokenResolves(p, authentication) ==
    /\ NoneDone
    /\ callback[p].pc = "createToken"
    /\ callback' = [callback EXCEPT ![p] =
            SecondTurn(@, authentication.token, authentication.refreshToken)]
    /\ UNCHANGED <<session, sessionUser, store, issued, install, uninstall>>

\* as FindInstallation, with a predicate that holds of every entry
FindAnyInstallation(installations, installation_id) == installations

\* lines 128-130: installations.find((i) => `${i.id}` === installation_id)
FindInstallation(installations, installation_id) ==
    {i \in installations : NumberToString(i) = installation_id}

(* ---------------- GithubAppService, the credential store ---------------- *)
Credential(userUuid, installation_id, token, refreshToken) ==
    [userUuid |-> userUuid, installationId |-> installation_id,
     token |-> token, refreshToken |-> refreshToken]

upsertInstallationInto(records, userUuid, installation_id, token, refreshToken) ==
    {r \in records : r.userUuid # userUuid}
        \cup {Credential(userUuid, installation_id, token, refreshToken)}

deleteAppInstallationFrom(records, userUuid) ==
    {r \in records : r.userUuid # userUuid}

\* lines 128-141: listInstallationsForAuthenticatedUser resolved; on a match
\* the handler calls upsertInstallation and awaits it
ThirdTurn(cb, installations) ==
    IF FindInstallation(installations, cb.installation_id) = {}
    THEN Throw([cb EXCEPT !.installations = installations], 0,
               "Error: Invalid installation id")
    ELSE [cb EXCEPT !.installations = installations,
                    !.pc = "upsertInstallation",
                    !.upsertCalls = @ + 1]

\* as StoreAfterThirdTurn, with token and refreshToken swapped in the call
StoreAfterThirdTurnSwapped(records, cb, installations) ==
    IF FindInstallation(installations, cb.installation_id) = {}
    THEN records
    ELSE upsertInstallationInto(records, cb.userUuid, cb.installation_id,
                                cb.refreshToken, cb.token)

\* the records after the third turn: the service writes the record as soon
\* as it is called (the turn reads and writes nothing else that is shared,
\* so a later write is this same step taken later)
StoreAfterThirdTurn(records, cb, installations) ==
    IF FindInstallation(installations, cb.installation_id) = {}
    THEN records
    ELSE upsertInstallationInto(records, cb.userUuid, cb.installation_id,
                                cb.token, cb.refreshToken)

listInstallationsResolves(p, installations) ==
    /\ NoneDone
    /\ callback[p].pc = "listInstallations"
    /\ callback' = [callback EXCEPT ![p] = ThirdTurn(@, installations)]
    /\ store' = StoreAfterThirdTurn(store, callback[p], installations)
    /\ UNCHANGED <<session, sessionUser, issued, install, uninstall>>

\* an awaited provider call rejects and the error propagates
providerCallRejects(p) ==
    /\ NoneDone
    /\ callback[p].pc \in {"createToken", "listInstallations"}
    /\ callback' = [callback EXCEPT ![p] = Throw(@, 0, "UpstreamError")]
    /\ UNCHANGED <<session, sessionUser, store, issued, install, uninstall>>

\* line 142: new URL(req.session.oauth?.returnTo || '/')
RedirectInput(oauth) == IF Falsy(oauth.returnTo) THEN <<"/">> ELSE oauth.returnTo

\* lines 142-145: upsertInstallation resolved
LastTurn(cb, oauth) ==
    IF ~IsAbsoluteUrl(RedirectInput(oauth))
    THEN Throw(cb, 0, "TypeError: Invalid URL")
    ELSE [cb EXCEPT !.pc = "done", !.status = 302,
                    !.location = RedirectInput(oauth)]

\* as upsertInstallationResolves, but line 143 empties the oauth of every
\* session
upsertInstallationResolvesClearingAll(p) ==
    LET s == callback[p].session IN
    /\ NoneDone
    /\ callback[p].pc = "upsertInstallation"
    /\ callback' = [callback EXCEPT ![p] = LastTurn(@, session[s])]
    /\ session' = IF IsAbsoluteUrl(RedirectInput(session[s]))
                  THEN [t \in Sessions |-> EmptyOauth]
                  ELSE session
    /\ UNCHANGED <<sessionUser, store, issued, install, uninstall>>

\* as upsertInstallationResolves, without line 143: the pending context
\* stays in the session
upsertInstallationResolvesKeepingContext(p) ==
    LET s == callback[p].session IN
    /\ NoneDone
    /\ callback[p].pc = "upsertInstallation"
    /\ callback' = [callback EXCEPT ![p] = LastTurn(@, session[s])]
    /\ UNCHANGED <<session, sessionUser, store, issued, install, uninstall>>

\* lines 142-145, with the session: req.session.oauth = {} is reached when
\* new URL did not throw
upsertInstallationResolves(p) ==
    LET s == callback[p].session IN
    /\ NoneDone
    /\ callback[p].pc = "upsertInstallation"
    /\ callback' = [callback EXCEPT ![p] = LastTurn(@, session[s])]
    /\ session' = IF IsAbsoluteUrl(RedirectInput(session[s]))
                  THEN [session EXCEPT ![s] = EmptyOauth]
                  ELSE session
    /\ UNCHANGED <<sessionUser, store, issued, install, uninstall>>

\* the response is sent and the invocation is over; callback lists the
\* invocations being served from the oldest on, so the later ones move up
respond(p) ==
    /\ callback[p].pc = "done"
    /\ callback' = [q \in Callbacks |->
            IF q < p THEN callback[q]
            ELSE IF q + 1 \in Callbacks THEN callback[q + 1]
            ELSE Idle]
    /\ UNCHANGED <<session, sessionUser, store, issued, install, uninstall>>

(* ---------------- DELETE /uninstall ---------------- *)
\* lines 159-163: the generic success envelope
SuccessEmpty == [status |-> "ok", results |-> undefined]

\* as uninstallGithubAppForOrganization, but a user without a record is
\* answered 404 and an error body
uninstallRejectingAbsent(userUuid) ==
    /\ NoneDone
    /\ store' = deleteAppInstallationFrom(store, userUuid)
    /\ uninstall' = IF \E r \in store : r.userUuid = userUuid
                    THEN [pc |-> "done", userUuid |-> userUuid,
                          status |-> 200, body |-> SuccessEmpty]
                    ELSE [pc |-> "done", userUuid |-> userUuid,
                          status |-> 404,
                          body |-> [status |-> "error", results |-> undefined]]
    /\ UNCHANGED <<session, sessionUser, issued, install, callback>>

\* lines 152-164, for req.user = userUuid: the service deletes the record,
\* then the handler sets 200 and returns the envelope (the turn after the
\* await touches the response only, so it is taken with the delete)
uninstallGithubAppForOrganization(userUuid) ==
    /\ NoneDone
    /\ store' = deleteAppInstallationFrom(store, userUuid)
    /\ uninstall' = [pc |-> "done", userUuid |-> userUuid, status |-> 200,
                     body |-> SuccessEmpty]
    /\ UNCHANGED <<session, sessionUser, issued, install, callback>>

\* the response of /uninstall is sent
respondUninstall ==
    /\ uninstall.pc = "done"
    /\ uninstall' = UninstallIdle
    /\ UNCHANGED <<session, sessionUser, store, issued, install, callback>>

(* ---------------- the specifications ---------------- *)
\* nanoid() is collision-free: it returns an identifier whose state token
\* was never handed out.  The handlers compare state tokens for equality
\* only, so which unused identifier it returns matters to the spelling of
\* the token and to nothing else: under Spec it is a fixed one, and
\* SpecInstall below draws it freely.
UnusedNanoIds == {nano \in NanoIds : stateOf(nano) \notin AllIssued}

Initiate(s) ==
    /\ Cardinality(AllIssued) < MaxInitiations
    /\ UnusedNanoIds # {}
    /\ installGithubAppForOrganization(s, CHOOSE nano \in UnusedNanoIds : TRUE)

Next ==
    \/ \E s \in Sessions : Initiate(s)
    \/ \E p \in Callbacks, s \in Sessions, code \in Codes, state \in States,
          installation_id \in InstallationIds, setup_action \in SetupActions :
            githubOauthCallback(p, s, code, state, installation_id, setup_action)
    \/ \E p \in Callbacks, authentication \in Authentications :
            createTokenResolves(p, authentication)
    \/ \E p \in Callbacks, installations \in InstallationLists :
            listInstallationsResolves(p, installations)
    \/ \E p \in Callbacks : providerCallRejects(p)
    \/ \E p \in Callbacks : upsertInstallationResolves(p)
    \/ \E p \in Callbacks : respond(p)
    \/ \E userUuid \in Users : uninstallGithubAppForOrganization(userUuid)
    \/ respondUninstall

Spec == Init /\ [][Next]_vars

\* initiations alone, nanoid() returning any identifier over its alphabet
NextInstall ==
    \E s \in Sessions, nano \in NanoIds : installGithubAppForOrganization(s, nano)

SpecInstall == Init /\ [][NextInstall]_vars

(* ---------------- properties ---------------- *)
\* the step in which invocation p runs its first turn
Began(p) == callback[p].pc = "idle" /\ callback'[p].pc # "idle"

NoCalls(cb) ==
    cb.createTokenCalls = 0 /\ cb.listInstallationsCalls = 0 /\ cb.upsertCalls = 0

RejectedState(cb) ==
    cb.pc = "done" /\ cb.status = 400 /\ cb.error = "Error: State does not match"

RejectedInput(cb) ==
    /\ cb.pc = "done" /\ cb.status = 400
    /\ cb.error \in {"Error: User uuid not provided",
                     "Error: Installation id not provided"}

\* the list the provider returned holds the claimed installation id
Listed(cb) == \E i \in cb.installations : NumberToString(i) = cb.installation_id

\* C1: a callback whose state is absent or differs from the session's
\* pending state (a session with no pending context included) ends in its
\* first turn with status 400 and "State does not match", has made no
\* provider call and no credential write, and leaves the store and every
\* session's pending context as they were.
C1_StateMismatchRejected ==
    [][\A p \in Callbacks :
          (/\ Began(p)
           /\ \/ Falsy(callback'[p].state)
              \/ callback'[p].state # session[callback'[p].session].state)
          => /\ RejectedState(callback'[p])
             /\ NoCalls(callback'[p])
             /\ store' = store
             /\ session' = session]_vars

\* a callback bearing a token that was handed out, to a session whose
\* pending state is another one, has been rejected
C1_Witness ==
    \E p \in Callbacks :
        /\ RejectedState(callback[p])
        /\ callback[p].state \in AllIssued
        /\ session[callback[p].session].state # undefined
        /\ session[callback[p].session].state # callback[p].state

\* C2: a step adds or replaces a credential record only when it is the third
\* turn of a callback whose exchange returned a token and whose installation
\* list holds an entry that prints as the callback's installation_id; a
\* validated callback whose list holds no such entry leaves the store alone
\* and has made no upsert call.
C2_UpsertOnlyWhenListed ==
    [][/\ (store' \ store # {}) =>
            \E p \in Callbacks :
                /\ callback[p].pc = "listInstallations"
                /\ callback'[p].pc = "upsertInstallation"
                /\ callback'[p].token # undefined
                /\ Listed(callback'[p])
       /\ \A p \in Callbacks :
            (/\ callback[p].pc = "listInstallations"
             /\ callback'[p].pc # "listInstallations"
             /\ callback'[p].validated
             /\ ~Listed(callback'[p]))
            => /\ store' = store
               /\ callback'[p].upsertCalls = 0]_vars

\* a validated callback was told a list without its installation id
C2_Witness ==
    \E p \in Callbacks :
        /\ callback[p].pc = "done"
        /\ callback[p].validated
        /\ callback[p].installation_id = <<"1", "2">>
        /\ callback[p].installations = {7}
        /\ callback[p].upsertCalls = 0

\* C3: a callback with a valid state and setup_action = 'review' responds
\* 200 and stops: it is done after its first turn with status 200 and has
\* made no code exchange, no installation-list call and no credential write.
C3_ReviewStops ==
    \A p \in Callbacks :
        (/\ callback[p].pc # "idle"
         /\ callback[p].validated
         /\ callback[p].setup_action = <<"review">>)
        => /\ callback[p].pc = "done"
           /\ callback[p].status = 200
           /\ NoCalls(callback[p])

\* the part of a state token after <namespace>_
RandomPart(state) == SubSeq(state, Len(subdomain) + 2, Len(state))

\* C4: the state token of an initiation is <namespace>_<random> and the
\* random part holds no separator, whatever nanoid() returned.
C4_NoSeparatorInRandom ==
    \A s \in Sessions :
        session[s].state # undefined =>
            /\ SubSeq(session[s].state, 1, Len(subdomain) + 1)
                    = subdomain \o <<separator>>
            /\ \A i \in 1..Len(RandomPart(session[s].state)) :
                    RandomPart(session[s].state)[i] # separator

AtMostOnePerUser(records) ==
    \A r1, r2 \in records : r1.userUuid = r2.userUuid => r1 = r2

\* C5: the store never holds two records of one user; the step in which a
\* callback's upsert is made leaves exactly one record for the user who
\* initiated on the callback's session, made of the callback's
\* installation_id and the token and refresh token of its exchange, in
\* place of any record that user had, and leaves other users' records.
C5_OneRecordPerUser ==
    [][/\ AtMostOnePerUser(store')
       /\ \A p \in Callbacks :
            (callback[p].pc = "listInstallations"
             /\ callback'[p].pc = "upsertInstallation")
            => LET cb == callback'[p] IN
               /\ cb.userUuid = sessionUser[cb.session]
               /\ {r \in store' : r.userUuid = cb.userUuid}
                     = {[userUuid |-> cb.userUuid,
                         installationId |-> cb.installation_id,
                         token |-> cb.token,
                         refreshToken |-> cb.refreshToken]}
               /\ cb.token \in {a.token : a \in Authentications}
               /\ \E a \in Authentications :
                     a.token = cb.token /\ a.refreshToken = cb.refreshToken
               /\ {r \in store' : r.userUuid # cb.userUuid}
                     = {r \in store : r.userUuid # cb.userUuid}]_vars

\* two callbacks of one user have both made their upsert, with different
\* tokens, and the user has one record
C5_Witness ==
    \E p, q \in Callbacks :
        /\ p # q
        /\ callback[p].pc = "upsertInstallation"
        /\ callback[q].pc = "upsertInstallation"
        /\ callback[p].userUuid = callback[q].userUuid
        /\ callback[p].token # callback[q].token
        /\ Cardinality({r \in store : r.userUuid = callback[p].userUuid}) = 1

\* the state token in the Location of the session's last /install response
LastIssued(s) == SubSeq(install[s].location, 4, Len(install[s].location))

\* C6: once a session has initiated a second time, a callback of that
\* session bearing a state token of an earlier initiation ends in its first
\* turn with status 400 and "State does not match", with no provider call
\* and no credential write.
C6_SupersededStateRejected ==
    [][\A p \in Callbacks :
          (/\ Began(p)
           /\ Cardinality(issued[callback'[p].session]) >= 2
           /\ callback'[p].state \in issued[callback'[p].session]
           /\ callback'[p].state # LastIssued(callback'[p].session))
          => /\ RejectedState(callback'[p])
             /\ NoCalls(callback'[p])
             /\ store' = store]_vars

\* a callback bearing the earlier token was rejected while the later one
\* is pending
C6_Witness ==
    \E p \in Callbacks :
        LET s == callback[p].session IN
        /\ RejectedState(callback[p])
        /\ Cardinality(issued[s]) >= 2
        /\ callback[p].state \in issued[s]
        /\ callback[p].state # LastIssued(s)
        /\ session[s].state = LastIssued(s)

\* C7: a callback with a valid state and no review, when the session holds
\* no initiating user id or the query no installation_id, ends in its first
\* turn with status 400, no provider call and no credential write, and
\* leaves the store and every session's pending context as they were.
C7_MissingInputRejected ==
    [][\A p \in Callbacks :
          (/\ Began(p)
           /\ callback'[p].validated
           /\ callback'[p].setup_action # <<"review">>
           /\ \/ Falsy(session[callback'[p].session].inviteCode)
              \/ Falsy(callback'[p].installation_id))
          => /\ RejectedInput(callback'[p])
             /\ NoCalls(callback'[p])
             /\ store' = store
             /\ session' = session]_vars

\* a callback with a valid state, no review and no installation_id was
\* rejected
C7_Witness ==
    \E p \in Callbacks :
        /\ callback[p].validated
        /\ callback[p].setup_action # <<"review">>
        /\ Falsy(callback[p].installation_id)
        /\ callback[p].pc = "done"
        /\ callback[p].status = 400
        /\ callback[p].error = "Error: Installation id not provided"

\* C8: when the code exchange of a callback returns a token and no refresh
\* token, the callback ends there with ForbiddenError: the installation
\* list is never asked for, no credential is written and the store and
\* every session's pending context stay as they were.
C8_NoRefreshTokenForbidden ==
    [][\A p \in Callbacks :
          (/\ callback[p].pc = "createToken"
           /\ callback'[p].pc # "createToken"
           /\ callback'[p].token # undefined
           /\ callback'[p].refreshToken = undefined)
          => /\ callback'[p].pc = "done"
             /\ callback'[p].error
                    = "ForbiddenError: Invalid authentication token"
             /\ callback'[p].listInstallationsCalls = 0
             /\ callback'[p].upsertCalls = 0
             /\ store' = store
             /\ session' = session]_vars

\* an exchange returned a token without a refresh token
C8_Witness ==
    \E p \in Callbacks :
        /\ callback[p].pc = "done"
        /\ callback[p].createTokenCalls = 1
        /\ callback[p].token = <<"T3">>
        /\ callback[p].refreshToken = undefined
        /\ callback[p].error = "ForbiddenError: Invalid authentication token"

\* C9: a callback whose exchange yields no refresh token and a callback
\* whose installation_id is not in the provider's list both end with an
\* access-denied (forbidden) error, and neither writes a credential.
C9_FailuresAreForbidden ==
    \A p \in Callbacks :
        (/\ callback[p].pc = "done"
         /\ \/ callback[p].token # undefined /\ callback[p].refreshToken = undefined
            \/ callback[p].installations # {} /\ ~Listed(callback[p]))
        => /\ callback[p].error = "ForbiddenError: Invalid authentication token"
           /\ callback[p].upsertCalls = 0

\* C10: a callback that has committed a credential ends with the session's
\* pending context cleared and status 302, its Location the returnTo the
\* session stored at initiation, or the root path when the session holds
\* none.
C10_CommitThenRedirect ==
    \A p \in Callbacks :
        (callback[p].pc = "done" /\ callback[p].upsertCalls = 1)
        => /\ callback[p].status = 302
           /\ callback[p].error = "none"
           /\ callback[p].location \in {returnToUrl, <<"/">>}
           /\ session[callback[p].session] = EmptyOauth

\* the terminal states of a callback
Committed(cb) ==
    cb.pc = "done" /\ cb.status = 302 /\ cb.error = "none" /\ cb.upsertCalls = 1

ReviewEnded(cb) ==
    /\ cb.pc = "done" /\ cb.status = 200 /\ cb.error = "none"
    /\ cb.setup_action = <<"review">> /\ NoCalls(cb)

\* ended by an error thrown after the first turn, before any credential write
RejectedLater(cb) ==
    /\ cb.pc = "done" /\ cb.error # "none"
    /\ ~RejectedState(cb) /\ ~RejectedInput(cb)

\* C11: a callback that has run to its end, whatever query values it got, is
\* in exactly one terminal state, which has set its response: committed
\* with 302, ended on review with 200, rejected for its state or its input
\* with 400, or rejected by a later error; a callback with a valid state,
\* an installation_id and no code included.
C11_OneTerminalState ==
    \A p \in Callbacks :
        callback[p].pc = "done"
        => Cardinality({i \in 1..5 :
                <<Committed(callback[p]), ReviewEnded(callback[p]),
                  RejectedState(callback[p]), RejectedInput(callback[p]),
                  RejectedLater(callback[p])>>[i]}) = 1

\* C12: a callback with a valid state and setup_action = 'review' that has
\* run to its end has cleared the pending context: the session no longer
\* holds the state the callback bore, so that a later callback bearing it
\* is rejected.
C12_ReviewClearsPending ==
    \A p \in Callbacks :
        (/\ callback[p].pc = "done"
         /\ callback[p].validated
         /\ callback[p].setup_action = <<"review">>)
        => session[callback[p].session].state # callback[p].state

\* C13: of the callbacks that bear one state token of one session, at most
\* one commits a credential, also when two of them are served at once and
\* interleave at the code exchange, the installation list and the upsert.
C13_OneCommitPerToken ==
    \A p, q \in Callbacks :
        (/\ p # q
         /\ callback[p].validated /\ callback[q].validated
         /\ callback[p].session = callback[q].session
         /\ callback[p].state = callback[q].state)
        => ~(callback[p].upsertCalls = 1 /\ callback[q].upsertCalls = 1)

C15_UninstallIdempotent ==
    [][(uninstall.pc = "idle" /\ uninstall'.pc = "done")
       => LET userUuid == uninstall'.userUuid IN
          /\ userUuid \in Users
          /\ uninstall'.status = 200
          /\ uninstall'.body = [status |-> "ok", results |-> undefined]
          /\ {r \in store' : r.userUuid = userUuid} = {}
          /\ {r \in store' : r.userUuid # userUuid}
                = {r \in store : r.userUuid # userUuid}
          /\ {r \in store : r.userUuid = userUuid} = {} => store' = store]_vars

\* /uninstall has answered a user whose callback had written a credential:
\* that record is gone and another user's record is still there
C15_Witness ==
    /\ uninstall.pc = "done"
    /\ uninstall.status = 200
    /\ \E p \in Callbacks :
          /\ callback[p].upsertCalls = 1
          /\ callback[p].userUuid = uninstall.userUuid
    /\ {r \in store : r.userUuid = uninstall.userUuid} = {}
    /\ \E r \in store : r.userUuid # uninstall.userUuid

\* C16: the step in which a callback ends committed with 302 leaves its
\* session without a pending context; a state token that was handed out to
\* a session and is not the session's pending state never becomes pending
\* again, a new initiation storing a new one; and a callback that begins
\* on a session bearing a token that is not pending there ends in its first
\* turn with 400 and "State does not match", with no provider call and no
\* credential write. Hence every callback that begins after a commit and
\* bears the committed token is rejected for its state.
C16_CommittedStateRejected ==
    [][/\ \A p \in Callbacks :
            (callback[p].pc = "upsertInstallation" /\ Committed(callback'[p]))
            => session'[callback[p].session] = EmptyOauth
       /\ \A s \in Sessions : \A state \in issued[s] :
            session[s].state # state => session'[s].state # state
       /\ \A p \in Callbacks :
            (/\ Began(p)
             /\ callback'[p].state \in issued[callback'[p].session]
             /\ session[callback'[p].session].state # callback'[p].state)
            => /\ RejectedState(callback'[p])
               /\ NoCalls(callback'[p])
               /\ store' = store
               /\ session' = session]_vars

\* on a session that initiated once and whose pending context a commit has
\* cleared, a callback bearing that one token was rejected for its state
C16_Witness ==
    \E p \in Callbacks :
        LET s == callback[p].session IN
        /\ RejectedState(callback[p])
        /\ NoCalls(callback[p])
        /\ issued[s] = {callback[p].state}
        /\ session[s] = EmptyOauth
        /\ \E r \in store : r.userUuid = sessionUser[s]

\* C17: when a callback that was validated against an earlier state token
\* ends while its session holds the pending context of a newer initiation,
\* the step in which it ends leaves that context (state, returnTo and
\* initiating user) as it is and does not redirect to its returnTo.
C17_OlderCallbackKeepsNewerContext ==
    [][\A p \in Callbacks :
          LET s == callback[p].session IN
          (/\ callback[p].pc = "upsertInstallation"
           /\ callback'[p].pc = "done"
           /\ ~Falsy(session[s].state)
           /\ session[s].state # callback[p].state)
          => /\ session'[s] = session[s]
             /\ ~(/\ callback'[p].status = 302
                  /\ callback'[p].location = session[s].returnTo)]_vars

\* callback p takes a turn (the sending of a response apart)
TurnOf(p) == NoneDone /\ callback'[p] # callback[p]

\* C18: a turn of a callback leaves the pending context of every session
\* but its own and the credential record of every user but the one who
\* initiated on its session as they were, and leaves the other callbacks
\* alone, whatever callbacks of other sessions and users are in progress.
C18_CallbackFrame ==
    [][\A p \in Callbacks :
          TurnOf(p)
          => LET s == callback'[p].session
                 userUuid == callback'[p].userUuid
             IN
             /\ \A t \in Sessions \ {s} : session'[t] = session[t]
             /\ userUuid \in {undefined, sessionUser[s]}
             /\ {r \in store' : r.userUuid # userUuid}
                   = {r \in store : r.userUuid # userUuid}
             /\ \A q \in Callbacks \ {p} : callback'[q] = callback[q]]_vars

\* a callback has ended committed on one session while a callback of
\* another session and another user has made its upsert: the other
\* session's context is pending and both users' records are in the store
C18_Witness ==
    \E p, q \in Callbacks :
        /\ Committed(callback[p])
        /\ callback[q].pc = "upsertInstallation"
        /\ callback[p].session # callback[q].session
        /\ callback[p].userUuid # callback[q].userUuid
        /\ session[callback[p].session] = EmptyOauth
        /\ session[callback[q].session].state = callback[q].state
        /\ \E r \in store : /\ r.userUuid = callback[p].userUuid
                            /\ r.token = callback[p].token
        /\ \E r \in store : /\ r.userUuid = callback[q].userUuid
                            /\ r.token = callback[q].token

====
